---------------------------- MODULE Spec2Model ----------------------------
(***************************************************************************)
(* A model of src/bot.py: the SQLite tables (messages, summaries, usage,   *)
(* subscriptions), the DB helpers, and the Telegram handlers start,        *)
(* summary_command, chat, pricing/subscribe, subscribe_button_callback.    *)
(*                                                                         *)
(* The handlers contain no await between their store and provider calls    *)
(* (sqlite3 and the OpenAI client are used synchronously) and the          *)
(* Application is built without concurrent updates, so a handler runs      *)
(* from its first line to its last without another handler in between:     *)
(* each handler is one action.  What does change while a handler runs is   *)
(* the wall clock; the clock readings a handler makes are inputs of its    *)
(* action (lag), as are the provider's answers and the calls that raise.   *)
(*                                                                         *)
(* Texts are tuples of one-character strings.  The Cyrillic keywords and   *)
(* texts of the source are written in Latin transliteration.               *)
(***************************************************************************)
EXTENDS Integers, Sequences, FiniteSets, TLC

\* ------------------------------------------------------------ settings

MAX_HISTORY == 30
SUMMARY_TRIGGER == 10
FREE_DAILY_LIMIT == 20
SUBSCRIPTION_DAYS == 30
SECONDS_PER_DAY == 86400
SHORT_GAP == 3 * 24 * 60 * 60
LONG_GAP == 14 * 24 * 60 * 60

\* ------------------------------------------------------------ bounds

\* Clock ticks per second: time.time() is a float, int(time.time()) drops
\* the fraction.
Res == 2
\* The clock reading (in seconds) when the process starts.
StartSecond == 86400
\* Users are 1..NUsers.
NUsers == 2
\* Requests of the ordinary kind (see PlainChat) at the start of a behaviour.
MaxPlain == 22
\* Requests and clock jumps of any kind after them.
MaxEvents == 2

Users == 1..NUsers

\* ------------------------------------------------------------ texts

Space == " "

\* str.lower() on the letters the model's texts use.
LowerChar(c) ==
    CASE c = "P" -> "p" [] c = "A" -> "a" [] c = "N" -> "n"
      [] c = "I" -> "i" [] c = "K" -> "k" [] OTHER -> c

Lower(text) == [i \in 1..Len(text) |-> LowerChar(text[i])]

RECURSIVE LStrip(_)
LStrip(text) ==
    IF text # <<>> /\ Head(text) = Space THEN LStrip(Tail(text)) ELSE text

RECURSIVE RStrip(_)
RStrip(text) ==
    IF text # <<>> /\ text[Len(text)] = Space
    THEN RStrip(SubSeq(text, 1, Len(text) - 1))
    ELSE text

\* str.strip()
Strip(text) == RStrip(LStrip(text))

\* k in t
Contains(t, k) ==
    \E i \in 1..(Len(t) - Len(k) + 1) : SubSeq(t, i, i + Len(k) - 1) = k

CRISIS_KEYWORDS ==
    << <<"s","u","i","c","i","d">>,
       <<"u","m","e","r","e","t">>,
       <<"n","e"," ","h","o","c","h","u"," ","z","h","i","t">>,
       <<"p","o","k","o","n","c","h","i","t">>,
       <<"p","a","n","i","k","a">>,
       <<"o","c","h","e","n"," ","p","l","o","h","o">>,
       <<"s","t","r","a","s","h","n","o">>,
       <<"t","r","e","v","o","z","h","n","o">>,
       <<"b","e","s","s","m","y","s","l","e","n","n","o">> >>

is_crisis(text) ==
    LET t == Lower(text)
    IN  \E n \in 1..Len(CRISIS_KEYWORDS) : Contains(t, CRISIS_KEYWORDS[n])

\* The fixed texts of the source, by name.
SYSTEM_PROMPT == <<"S","Y","S">>
SUMMARY_PROMPT == <<"S","U","M">>
SummaryLabel == <<"R","E","Z",":">>

\* ------------------------------------------------------------ clock

\* int(time.time()) of a clock reading
IntTime(clk) == clk \div Res

\* today(): the date of a clock reading
today(clk) == IntTime(clk) \div SECONDS_PER_DAY

\* ------------------------------------------------------------ DB helpers
\* messages is the table in rowid order; summaries, usage, subscriptions
\* are sets of rows.  clk is the clock reading at the call.

save_message(messages, user_id, role, content, clk) ==
    Append(messages,
           [user_id |-> user_id, role |-> role, content |-> content,
            ts |-> IntTime(clk)])

\* The rowids of a user's rows, ascending.
RowsOf(messages, user_id) ==
    SelectSeq([i \in 1..Len(messages) |-> i],
              LAMBDA i : messages[i].user_id = user_id)

\* ORDER BY ts DESC: rows of equal ts come in an order SQL leaves open; tie
\* is the order the engine takes, by rowid ascending or descending.
Before(messages, tie, a, b) ==
    \/ messages[a].ts > messages[b].ts
    \/ /\ messages[a].ts = messages[b].ts
       /\ IF tie = "rowid_asc" THEN a < b ELSE a > b

\* rows sorted by Before.  Before is a total order on the rows, so the
\* result does not depend on the order the rows are handed to the sort in.
OrderByTsDesc(messages, tie, rows) ==
    SortSeq([i \in 1..Len(rows) |-> rows[Len(rows) + 1 - i]],
            LAMBDA a, b : Before(messages, tie, a, b))

Reversed(s) == [i \in 1..Len(s) |-> s[Len(s) + 1 - i]]

Min2(a, b) == IF a < b THEN a ELSE b

\* LastRowids without the LIMIT.
LastRowidsNoLimit(messages, user_id, limit, tie) ==
    Reversed(OrderByTsDesc(messages, tie, RowsOf(messages, user_id)))

\* The rowids load_last_messages returns, in the order it returns them.
LastRowids(messages, user_id, limit, tie) ==
    LET ordered == OrderByTsDesc(messages, tie, RowsOf(messages, user_id))
    IN  Reversed(SubSeq(ordered, 1, Min2(limit, Len(ordered))))

load_last_messages(messages, user_id, limit, tie) ==
    LET ids == LastRowids(messages, user_id, limit, tie)
    IN  [i \in 1..Len(ids) |->
            [role |-> messages[ids[i]].role, content |-> messages[ids[i]].content]]

has_history(messages, user_id) ==
    \E i \in 1..Len(messages) : messages[i].user_id = user_id

UserRows(messages, user_id) ==
    {i \in 1..Len(messages) :
        messages[i].user_id = user_id /\ messages[i].role = "user"}

\* Python's None: as a name, as a number, as a text.
None == "None"
NoInt == 0 - 1
NoText == <<"None">>

\* ORDER BY ts DESC LIMIT 1 selects a ts: the greatest.
get_last_user_ts(messages, user_id) ==
    LET rows == UserRows(messages, user_id)
    IN  IF rows = {} THEN NoInt
        ELSE messages[CHOOSE i \in rows :
                         \A j \in rows : messages[i].ts >= messages[j].ts].ts

count_user_messages(messages, user_id) ==
    Cardinality(UserRows(messages, user_id))

get_summary(summaries, user_id) ==
    IF \E r \in summaries : r.user_id = user_id
    THEN (CHOOSE r \in summaries : r.user_id = user_id).content
    ELSE NoText

\* save_summary keeping the row a user already has (INSERT OR IGNORE).
save_summary_ignore(summaries, user_id, content, clk) ==
    IF \E r \in summaries : r.user_id = user_id
    THEN summaries
    ELSE summaries
            \cup {[user_id |-> user_id, content |-> content, ts |-> IntTime(clk)]}

\* INSERT ... ON CONFLICT(user_id) DO UPDATE
save_summary(summaries, user_id, content, clk) ==
    {r \in summaries : r.user_id # user_id}
        \cup {[user_id |-> user_id, content |-> content, ts |-> IntTime(clk)]}

\* activate_subscription adding the period to the expiry the user has.
activate_subscription_stacking(subscriptions, user_id, clk) ==
    LET old == {r \in subscriptions : r.user_id = user_id}
        base == IF old = {} THEN IntTime(clk)
                ELSE (CHOOSE r \in old : TRUE).expires_at
    IN  {r \in subscriptions : r.user_id # user_id}
            \cup {[user_id |-> user_id,
                   expires_at |-> base + SUBSCRIPTION_DAYS * 86400]}

activate_subscription(subscriptions, user_id, clk) ==
    {r \in subscriptions : r.user_id # user_id}
        \cup {[user_id |-> user_id,
               expires_at |-> IntTime(clk) + SUBSCRIPTION_DAYS * 86400]}

\* row[0] > time.time(): an integer against the float clock
has_active_subscription(subscriptions, user_id, clk) ==
    \E r \in subscriptions : r.user_id = user_id /\ r.expires_at * Res > clk

get_usage(usage, user_id, clk) ==
    IF \E r \in usage : r.user_id = user_id /\ r.date = today(clk)
    THEN (CHOOSE r \in usage : r.user_id = user_id /\ r.date = today(clk)).count
    ELSE 0

\* increment_usage on a table keyed by user_id alone: the user's row is
\* carried over to the new day.
increment_usage_per_user(usage, user_id, clk) ==
    IF \E r \in usage : r.user_id = user_id
    THEN {IF r.user_id = user_id
          THEN [r EXCEPT !.count = @ + 1, !.date = today(clk)]
          ELSE r : r \in usage}
    ELSE usage \cup {[user_id |-> user_id, date |-> today(clk), count |-> 1]}

\* INSERT ... VALUES (?, ?, 1) ON CONFLICT(user_id, date) DO UPDATE SET count = count + 1
increment_usage(usage, user_id, clk) ==
    LET key(r) == r.user_id = user_id /\ r.date = today(clk)
    IN  IF \E r \in usage : key(r)
        THEN {IF key(r) THEN [r EXCEPT !.count = @ + 1] ELSE r : r \in usage}
        ELSE usage \cup {[user_id |-> user_id, date |-> today(clk), count |-> 1]}


\* ------------------------------------------------------------ state

VARIABLES
    messages,       \* table messages, in rowid order
    summaries,      \* table summaries
    usage,          \* table usage
    subscriptions,  \* table subscriptions
    clock,          \* the wall clock, in ticks of 1/Res second
    out,            \* what the last handler run did (see Begin)
    plain,          \* ordinary requests so far
    events          \* other requests and clock jumps so far

vars == <<messages, summaries, usage, subscriptions, clock, out, plain, events>>

\* ------------------------------------------------------------ a handler run
\* A run is a record: the tables and the clock as the handler sees them, its
\* local variables, and what it did.  raised is the call site (its source
\* line) whose exception ended the run, returned says the handler returned.

\* Call sites of the store and of the provider, by source line.
StoreSites ==
    {"L279", "L287", "L328", "L334", "L337", "L351", "L352", "L362", "L363",
     "L364", "L366", "L193", "L202", "L372", "L373", "L391"}
ProviderSites == {"L196", "L384"}
Sites == StoreSites \cup ProviderSites

Begin(handler, user_id, inp) ==
    [ handler |-> handler, user_id |-> user_id, inp |-> inp,
      messages |-> messages, summaries |-> summaries, usage |-> usage,
      subscriptions |-> subscriptions, clock |-> clock + inp.gap,
      started |-> clock + inp.gap,
      \* locals
      active1 |-> FALSE, usage_read |-> NoInt, active2 |-> FALSE,
      count |-> NoInt, history |-> <<>>, summary |-> NoText,
      hist |-> FALSE, last_ts |-> NoInt,
      \* the messages passed to the provider by generate_summary and by chat
      summary_prompt |-> <<>>, prompt |-> <<>>,
      \* effects, in order
      trace |-> <<>>,      \* the calls made: <<site, what>>
      replies |-> <<>>,    \* reply_text calls
      swallowed |-> {},    \* sites whose exception an except clause caught
      raised |-> None, returned |-> FALSE ]

Live(m) == m.raised = None /\ ~m.returned

\* One call at a site: the clock moves by the site's lag, then the call
\* raises (inp.faults) or has its effect.
Call(m, site, what, Effect(_)) ==
    IF ~Live(m) THEN m
    ELSE LET m1 == [m EXCEPT !.clock = @ + m.inp.lag[site],
                             !.trace = Append(@, <<site, what>>)]
         IN  IF site \in m.inp.faults
             THEN [m1 EXCEPT !.raised = site]
             ELSE Effect(m1)

Reply(m, text) ==
    IF ~Live(m) THEN m
    ELSE [m EXCEPT !.replies = Append(@, text),
                   !.trace = Append(@, <<"reply", "reply_text">>)]

Return(m) == IF ~Live(m) THEN m ELSE [m EXCEPT !.returned = TRUE]

\* ------------------------------------------------------------ generate_summary

GenSummaryLoad(m) ==
    LET Eff(x) ==
          [x EXCEPT !.summary_prompt =
              <<[role |-> "system", content |-> SUMMARY_PROMPT]>>
                \o load_last_messages(x.messages, x.user_id, MAX_HISTORY, x.inp.tie)]
    IN  Call(m, "L193", "load_last_messages", Eff)

\* response.choices[0].message.content.strip(), then save_summary
GenSummarySave(m) ==
    LET Eff(x) ==
          [x EXCEPT !.summaries =
              save_summary(@, x.user_id, Strip(x.inp.summary_answer), x.clock)]
    IN  Call(m, "L202", "save_summary", Eff)

\* generate_summary deleting the rows it has summarized.
generate_summary_compacting(m) ==
    LET Provider(x) == x
        m1 == GenSummaryLoad(m)
        m2 == Call(m1, "L196", "completion", Provider)
        m3 == GenSummarySave(m2)
    IN  IF Live(m3)
        THEN [m3 EXCEPT !.messages =
                 SelectSeq(@, LAMBDA r : r.user_id # m3.user_id)]
        ELSE m3

generate_summary(m) ==
    LET Provider(x) == x
        m1 == GenSummaryLoad(m)
        m2 == Call(m1, "L196", "completion", Provider)
    IN  GenSummarySave(m2)


\* ------------------------------------------------------------ replies

GREETING_FIRST == <<"g","1">>
GREETING_LONG_GAP == <<"g","2">>
GREETING_SHORT_GAP == <<"g","3">>
NO_HISTORY_TEXT == <<"n","o">>
LIMIT_TEXT == <<"l","i","m","i","t">>
PRICING_TEXT == <<"p","r","i","c","e">>
PAYMENT_SOON_TEXT == <<"s","o","o","n">>
SummaryReply(summary) == <<"v","o","t",":">> \o summary

\* ------------------------------------------------------------ chat

\* ChatCheck with the quota test off by one (usage > FREE_DAILY_LIMIT).
ChatCheckOffByOne(m) ==
    LET Sub(x) ==
          [x EXCEPT !.active1 =
              has_active_subscription(x.subscriptions, x.user_id, x.clock)]
        Usage(x) ==
          [x EXCEPT !.usage_read = get_usage(x.usage, x.user_id, x.clock)]
        m1 == Call(m, "L351", "has_active_subscription", Sub)
        m2 == IF Live(m1) /\ ~m1.active1
              THEN Call(m1, "L352", "get_usage", Usage)
              ELSE m1
    IN  IF Live(m2) /\ ~m2.active1
           /\ m2.usage_read > FREE_DAILY_LIMIT /\ ~is_crisis(m2.inp.text)
        THEN Return(Reply(m2, LIMIT_TEXT))
        ELSE m2

\* ChatCheck without the return after the limit reply.
ChatCheckNoReturn(m) ==
    LET Sub(x) ==
          [x EXCEPT !.active1 =
              has_active_subscription(x.subscriptions, x.user_id, x.clock)]
        Usage(x) ==
          [x EXCEPT !.usage_read = get_usage(x.usage, x.user_id, x.clock)]
        m1 == Call(m, "L351", "has_active_subscription", Sub)
        m2 == IF Live(m1) /\ ~m1.active1
              THEN Call(m1, "L352", "get_usage", Usage)
              ELSE m1
    IN  IF Live(m2) /\ ~m2.active1
           /\ m2.usage_read >= FREE_DAILY_LIMIT /\ ~is_crisis(m2.inp.text)
        THEN Reply(m2, LIMIT_TEXT)
        ELSE m2

\* lines 351-360: the entitlement check
ChatCheck(m) ==
    LET Sub(x) ==
          [x EXCEPT !.active1 =
              has_active_subscription(x.subscriptions, x.user_id, x.clock)]
        Usage(x) ==
          [x EXCEPT !.usage_read = get_usage(x.usage, x.user_id, x.clock)]
        m1 == Call(m, "L351", "has_active_subscription", Sub)
        m2 == IF Live(m1) /\ ~m1.active1
              THEN Call(m1, "L352", "get_usage", Usage)
              ELSE m1
    IN  IF Live(m2) /\ ~m2.active1
           /\ m2.usage_read >= FREE_DAILY_LIMIT /\ ~is_crisis(m2.inp.text)
        THEN Return(Reply(m2, LIMIT_TEXT))
        ELSE m2

\* ChatPersist not storing a message that contains a crisis keyword.
ChatPersistNotCrisis(m) ==
    LET Save(x) ==
          [x EXCEPT !.messages =
              save_message(@, x.user_id, "user", x.inp.text, x.clock)]
        Sub(x) ==
          [x EXCEPT !.active2 =
              has_active_subscription(x.subscriptions, x.user_id, x.clock)]
        Incr(x) ==
          [x EXCEPT !.usage = increment_usage(@, x.user_id, x.clock)]
        m1 == IF is_crisis(m.inp.text) THEN m
              ELSE Call(m, "L362", "save_message", Save)
        m2 == Call(m1, "L363", "has_active_subscription", Sub)
    IN  IF Live(m2) /\ ~m2.active2
        THEN Call(m2, "L364", "increment_usage", Incr)
        ELSE m2

\* ChatPersist counting the message twice.
ChatPersistTwice(m) ==
    LET Save(x) ==
          [x EXCEPT !.messages =
              save_message(@, x.user_id, "user", x.inp.text, x.clock)]
        Sub(x) ==
          [x EXCEPT !.active2 =
              has_active_subscription(x.subscriptions, x.user_id, x.clock)]
        Incr(x) ==
          [x EXCEPT !.usage =
              increment_usage(increment_usage(@, x.user_id, x.clock),
                              x.user_id, x.clock)]
        m1 == Call(m, "L362", "save_message", Save)
        m2 == Call(m1, "L363", "has_active_subscription", Sub)
    IN  IF Live(m2) /\ ~m2.active2
        THEN Call(m2, "L364", "increment_usage", Incr)
        ELSE m2

\* lines 362-364
ChatPersist(m) ==
    LET Save(x) ==
          [x EXCEPT !.messages =
              save_message(@, x.user_id, "user", x.inp.text, x.clock)]
        Sub(x) ==
          [x EXCEPT !.active2 =
              has_active_subscription(x.subscriptions, x.user_id, x.clock)]
        Incr(x) ==
          [x EXCEPT !.usage = increment_usage(@, x.user_id, x.clock)]
        m1 == Call(m, "L362", "save_message", Save)
        m2 == Call(m1, "L363", "has_active_subscription", Sub)
    IN  IF Live(m2) /\ ~m2.active2
        THEN Call(m2, "L364", "increment_usage", Incr)
        ELSE m2

\* ChatSummarize trying again at every message while a user past the first
\* trigger has no summary.
ChatSummarizeWhenMissing(m) ==
    LET Count(x) ==
          [x EXCEPT !.count = count_user_messages(x.messages, x.user_id)]
        m1 == Call(m, "L366", "count_user_messages", Count)
    IN  IF Live(m1)
           /\ ( \/ m1.count % SUMMARY_TRIGGER = 0
                \/ /\ m1.count > SUMMARY_TRIGGER
                   /\ get_summary(m1.summaries, m1.user_id) = NoText )
        THEN LET m2 == generate_summary(m1)
             IN  IF m2.raised # None
                 THEN [m2 EXCEPT !.swallowed = @ \cup {m2.raised},
                                 !.raised = None]
                 ELSE m2
        ELSE m1

\* ChatSummarize without the try/except.
ChatSummarizeNoCatch(m) ==
    LET Count(x) ==
          [x EXCEPT !.count = count_user_messages(x.messages, x.user_id)]
        m1 == Call(m, "L366", "count_user_messages", Count)
    IN  IF Live(m1) /\ m1.count % SUMMARY_TRIGGER = 0
        THEN generate_summary(m1)
        ELSE m1

\* lines 366-370: try: generate_summary(user_id) except Exception: pass
ChatSummarize(m) ==
    LET Count(x) ==
          [x EXCEPT !.count = count_user_messages(x.messages, x.user_id)]
        m1 == Call(m, "L366", "count_user_messages", Count)
    IN  IF Live(m1) /\ m1.count % SUMMARY_TRIGGER = 0
        THEN LET m2 == generate_summary(m1)
             IN  IF m2.raised # None
                 THEN [m2 EXCEPT !.swallowed = @ \cup {m2.raised},
                                 !.raised = None]
                 ELSE m2
        ELSE m1

\* lines 372-382: the prompt
ChatAssemble(m) ==
    LET Load(x) ==
          [x EXCEPT !.history =
              load_last_messages(x.messages, x.user_id, MAX_HISTORY, x.inp.tie)]
        Summary(x) ==
          [x EXCEPT !.summary = get_summary(x.summaries, x.user_id)]
        m1 == Call(m, "L372", "load_last_messages", Load)
        m2 == Call(m1, "L373", "get_summary", Summary)
        system == <<[role |-> "system", content |-> SYSTEM_PROMPT]>>
        \* if summary: None and the empty text are false
        extra == IF m2.summary # NoText /\ m2.summary # <<>>
                 THEN <<[role |-> "system",
                         content |-> SummaryLabel \o m2.summary]>>
                 ELSE <<>>
    IN  IF Live(m2)
        THEN [m2 EXCEPT !.prompt = system \o extra \o m2.history]
        ELSE m2

\* lines 384-392
ChatComplete(m) ==
    LET Provider(x) == x
        Save(x) ==
          [x EXCEPT !.messages =
              save_message(@, x.user_id, "assistant", x.inp.chat_answer, x.clock)]
        m1 == Call(m, "L384", "completion", Provider)
        m2 == Call(m1, "L391", "save_message", Save)
    IN  Return(Reply(m2, m2.inp.chat_answer))

chat(m) == ChatComplete(ChatAssemble(ChatSummarize(ChatPersist(ChatCheck(m)))))

\* ------------------------------------------------------------ start

\* start taking a gap of exactly LONG_GAP for a long one (gap >= LONG_GAP).
start_long_at_threshold(m) ==
    LET Hist(x) == [x EXCEPT !.hist = has_history(x.messages, x.user_id)]
        Last(x) == [x EXCEPT !.last_ts = get_last_user_ts(x.messages, x.user_id)]
        m1 == Call(m, "L279", "has_history", Hist)
    IN  IF ~Live(m1) THEN m1
        ELSE IF ~m1.hist THEN Return(Reply(m1, GREETING_FIRST))
        ELSE LET m2 == Call(m1, "L287", "get_last_user_ts", Last)
                 gap == IF m2.last_ts # NoInt /\ m2.last_ts # 0
                        THEN m2.clock - m2.last_ts * Res
                        ELSE 0
             IN  IF ~Live(m2) THEN m2
                 ELSE IF gap >= LONG_GAP * Res
                      THEN Return(Reply(m2, GREETING_LONG_GAP))
                      ELSE Return(Reply(m2, GREETING_SHORT_GAP))

start(m) ==
    LET Hist(x) == [x EXCEPT !.hist = has_history(x.messages, x.user_id)]
        Last(x) == [x EXCEPT !.last_ts = get_last_user_ts(x.messages, x.user_id)]
        m1 == Call(m, "L279", "has_history", Hist)
    IN  IF ~Live(m1) THEN m1
        ELSE IF ~m1.hist THEN Return(Reply(m1, GREETING_FIRST))
        ELSE LET m2 == Call(m1, "L287", "get_last_user_ts", Last)
                 \* gap = time.time() - last_ts if last_ts else 0
                 gap == IF m2.last_ts # NoInt /\ m2.last_ts # 0
                        THEN m2.clock - m2.last_ts * Res
                        ELSE 0
             IN  IF ~Live(m2) THEN m2
                 ELSE IF gap > LONG_GAP * Res
                      THEN Return(Reply(m2, GREETING_LONG_GAP))
                      ELSE Return(Reply(m2, GREETING_SHORT_GAP))

\* ------------------------------------------------------------ summary_command

summary_command(m) ==
    LET Hist(x) == [x EXCEPT !.hist = has_history(x.messages, x.user_id)]
        Summary(x) == [x EXCEPT !.summary = get_summary(x.summaries, x.user_id)]
        m1 == Call(m, "L328", "has_history", Hist)
    IN  IF ~Live(m1) THEN m1
        ELSE IF ~m1.hist THEN Return(Reply(m1, NO_HISTORY_TEXT))
        ELSE LET m2 == Call(m1, "L334", "get_summary", Summary)
                 \* if not summary
                 m3 == IF Live(m2) /\ (m2.summary = NoText \/ m2.summary = <<>>)
                       THEN Call(generate_summary(m2), "L337", "get_summary", Summary)
                       ELSE m2
             IN  Return(Reply(m3, SummaryReply(m3.summary)))

\* pricing_command, subscribe_command
pricing_command(m) == Return(Reply(m, PRICING_TEXT))

subscribe_button_callback(m) == Return(Reply(m, PAYMENT_SOON_TEXT))


\* ------------------------------------------------------------ inputs

Day == SECONDS_PER_DAY * Res

\* lag: how long the clock moves before each call site is reached.
NoLag == [s \in Sites |-> 0]

\* The ordinary request: a text without keyword, one second after the last
\* activity, a provider that takes a second and answers, no call raising.
PlainText == <<"h","i">>
PlainSummary == <<"s","u","m">>
PlainAnswer == <<"o","k">>
PlainLag == [NoLag EXCEPT !["L196"] = Res, !["L384"] = Res]
PlainInput ==
    [ text |-> PlainText, gap |-> Res, lag |-> PlainLag, faults |-> {},
      tie |-> "rowid_asc", summary_answer |-> PlainSummary,
      chat_answer |-> PlainAnswer ]

\* update.message.text.strip() of what the user typed
Typed ==
    { <<"o","h"," ","P","a","N","i","K","a","!">>,
      <<" ","p","a","n","i","k","a"," ">>,
      <<"p","a","n","i","k">> }
Texts == {Strip(t) : t \in Typed}

\* Time passing with no request: a day, the greeting's long gap, the
\* subscription period.
Jumps == {Day, LONG_GAP * Res, SUBSCRIPTION_DAYS * Day}

\* How long until the last tick before midnight, and until the last tick at
\* which the user's subscription is active.
BeforeMidnight(clk) == (today(clk) + 1) * Day - 1 - clk
BeforeExpiry(subs, user_id, clk) ==
    {r.expires_at * Res - 1 - clk :
        r \in {x \in subs : x.user_id = user_id /\ x.expires_at * Res - 1 >= clk}}

\* A request arriving at such a moment, and the tick that follows falling
\* before the insert (line 362) or before the increment (line 364).
EdgeGaps(subs, user_id, clk) ==
    {BeforeMidnight(clk)} \cup BeforeExpiry(subs, user_id, clk)
EdgeLags ==
    {PlainLag, [PlainLag EXCEPT !["L362"] = 1], [PlainLag EXCEPT !["L364"] = 1]}

\* The provider answers within the second.
QuickLag == NoLag

ChatFaults ==
    {{s} : s \in {"L351", "L352", "L362", "L363", "L364", "L366", "L193",
                  "L196", "L202", "L372", "L373", "L384", "L391"}}
        \cup {{"L196", "L384"}}
Blank == <<" ">>

\* A request other than the ordinary one differs from it in one respect.
ChatInputs(subs, user_id, clk) ==
    {[PlainInput EXCEPT !.text = t] : t \in Texts}
      \cup {[PlainInput EXCEPT !.gap = 0]}
      \cup {[PlainInput EXCEPT !.gap = g, !.lag = l] :
               g \in EdgeGaps(subs, user_id, clk), l \in EdgeLags}
      \cup {[PlainInput EXCEPT !.lag = QuickLag]}
      \cup {[PlainInput EXCEPT !.faults = f] : f \in ChatFaults}
      \cup {[PlainInput EXCEPT !.tie = "rowid_desc", !.gap = 0]}
      \cup {[PlainInput EXCEPT !.summary_answer = Blank],
            [PlainInput EXCEPT !.chat_answer = Blank]}
      \cup {PlainInput}

\* What the users other than user 1 send.
OtherChatInputs ==
    {PlainInput} \cup {[PlainInput EXCEPT !.text = t] : t \in Texts}

\* /start at once, and when the user's last message is exactly LONG_GAP old
\* and one tick older.
StartGaps(msgs, user_id, clk) ==
    LET last == get_last_user_ts(msgs, user_id)
        edge == IF last = NoInt THEN LONG_GAP * Res
                ELSE (last + LONG_GAP) * Res - clk
    IN  {g \in {0, edge, edge + 1} : g >= 0}

StartInputs(msgs, user_id, clk) ==
    {[PlainInput EXCEPT !.gap = g] : g \in StartGaps(msgs, user_id, clk)}
      \cup {[PlainInput EXCEPT !.faults = {s}] : s \in {"L279", "L287"}}

SummaryInputs ==
    {[PlainInput EXCEPT !.faults = {s}] :
        s \in {"L328", "L334", "L193", "L196", "L202", "L337"}}
      \cup {[PlainInput EXCEPT !.summary_answer = Blank], PlainInput}

\* ------------------------------------------------------------ actions

\* What is kept of a finished run.
Out(m) ==
    [ no |-> plain + events + 1,
      handler |-> m.handler, user_id |-> m.user_id, text |-> m.inp.text,
      started |-> m.started, ended |-> m.clock, active1 |-> m.active1,
      usage_read |-> m.usage_read, active2 |-> m.active2, count |-> m.count,
      summary |-> m.summary, hist |-> m.hist, last_ts |-> m.last_ts,
      prompt |-> m.prompt, trace |-> m.trace, replies |-> m.replies,
      swallowed |-> m.swallowed, raised |-> m.raised,
      expires_before |-> NoInt ]

\* The tables, the clock and out after the run m.
Finish(m) ==
    /\ messages' = m.messages
    /\ summaries' = m.summaries
    /\ usage' = m.usage
    /\ subscriptions' = m.subscriptions
    /\ clock' = m.clock
    /\ out' = Out(m)

NoRun ==
    [ no |-> 0, handler |-> None, user_id |-> 0, text |-> NoText, started |-> NoInt,
      ended |-> NoInt,
      active1 |-> FALSE, usage_read |-> NoInt, active2 |-> FALSE,
      count |-> NoInt, summary |-> NoText, hist |-> FALSE, last_ts |-> NoInt,
      prompt |-> <<>>,
      trace |-> <<>>, replies |-> <<>>, swallowed |-> {}, raised |-> None,
      \* activate_subscription: the expiry the user's row had before the call
      expires_before |-> NoInt ]

Init ==
    /\ messages = <<>>
    /\ summaries = {}
    /\ usage = {}
    /\ subscriptions = {}
    /\ clock = StartSecond * Res
    /\ out = NoRun
    /\ plain = 0
    /\ events = 0

Counted == events < MaxEvents /\ events' = events + 1 /\ plain' = plain

\* The numbers of ordinary requests after which the other requests begin:
\* none and one, those around the summary triggers, around the history limit
\* and around the daily limit, and all of them.
EventPoints ==
    {0, 1, MAX_HISTORY \div 2 - 1, MAX_HISTORY \div 2,
     FREE_DAILY_LIMIT - 1, FREE_DAILY_LIMIT, MaxPlain}
      \cup {k * SUMMARY_TRIGGER - d : k \in 1..2, d \in 0..2}

Event == Counted /\ (IF events = 0 THEN plain \in EventPoints ELSE TRUE)

\* The ordinary requests of a behaviour come first.
PlainChat ==
    /\ events = 0
    /\ plain < MaxPlain
    /\ plain' = plain + 1
    /\ events' = events
    /\ Finish(chat(Begin("chat", 1, PlainInput)))

Chat ==
    \E u \in Users :
      \E inp \in IF u = 1 THEN ChatInputs(subscriptions, u, clock)
                          ELSE OtherChatInputs :
        /\ Event
        /\ Finish(chat(Begin("chat", u, inp)))

Start ==
    \E u \in Users :
      \E inp \in StartInputs(messages, u, clock) :
        /\ Event
        /\ Finish(start(Begin("start", u, inp)))

SummaryCommand ==
    \E u \in Users, inp \in SummaryInputs :
        /\ Event
        /\ Finish(summary_command(Begin("summary_command", u, inp)))

Pricing ==
    \E u \in Users :
        /\ Event
        /\ Finish(pricing_command(Begin("pricing_command", u, PlainInput)))

SubscribeButton ==
    \E u \in Users :
        /\ Event
        /\ Finish(subscribe_button_callback(
                     Begin("subscribe_button_callback", u, PlainInput)))

\* The call comes at once or a day after the last activity.
ActivationGaps == {0, Day}

\* No handler of the source calls activate_subscription; this is a call of
\* it, as the payment confirmation the function is written for would make.
ActivateSubscription ==
    \E u \in Users, g \in ActivationGaps :
        /\ Event
        /\ subscriptions' = activate_subscription(subscriptions, u, clock + g)
        /\ clock' = clock + g
        /\ out' = [NoRun EXCEPT !.no = plain + events + 1,
                                !.handler = "activate_subscription",
                                !.user_id = u, !.started = clock + g,
                                !.ended = clock + g,
                                !.expires_before =
                                    IF \E r \in subscriptions : r.user_id = u
                                    THEN (CHOOSE r \in subscriptions :
                                              r.user_id = u).expires_at
                                    ELSE NoInt]
        /\ UNCHANGED <<messages, summaries, usage>>

\* Time passing with no request.
Tick ==
    \E d \in Jumps :
        /\ Event
        /\ clock' = clock + d
        /\ UNCHANGED <<messages, summaries, usage, subscriptions, out>>

Next ==
    \/ PlainChat
    \/ Chat
    \/ Start
    \/ SummaryCommand
    \/ Pricing
    \/ SubscribeButton
    \/ ActivateSubscription
    \/ Tick

Spec == Init /\ [][Next]_vars

\* ------------------------------------------------------------ one user, any order
\* User 1's messages and /summary requests in any order, the provider call of
\* the summarization failing or not.

TriggerInputs == {PlainInput, [PlainInput EXCEPT !.faults = {"L196"}]}

ChatAnyTime ==
    \E inp \in TriggerInputs :
        /\ plain < MaxPlain
        /\ plain' = plain + 1
        /\ events' = events
        /\ Finish(chat(Begin("chat", 1, inp)))

SummaryAnyTime ==
    \E inp \in TriggerInputs :
        /\ Counted
        /\ Finish(summary_command(Begin("summary_command", 1, inp)))

NextTrigger ==
    \/ ChatAnyTime
    \/ SummaryAnyTime

SpecTrigger == Init /\ [][NextTrigger]_vars


\* ------------------------------------------------------------ vocabulary

\* The step is a handler run (Tick leaves out as it is).
NewRun == out'.no # out.no

\* The run made the call at the site.
Reached(o, site) == \E i \in 1..Len(o.trace) : o.trace[i][1] = site
Position(o, site) == CHOOSE i \in 1..Len(o.trace) : o.trace[i][1] = site
Times(o, site) == Cardinality({i \in 1..Len(o.trace) : o.trace[i][1] = site})

\* A chat run that came to its entitlement decision.
Decided(o) == o.handler = "chat" /\ o.raised \notin {"L351", "L352"}
\* Denied: the limit reply was sent.  Admitted: the handler went on to
\* persist the message.
Denied(o) == Decided(o) /\ \E i \in 1..Len(o.replies) : o.replies[i] = LIMIT_TEXT
Admitted(o) == Decided(o) /\ Reached(o, "L362")

\* The sum of a user's usage counts over all days.
RECURSIVE SumCounts(_)
SumCounts(rows) ==
    IF rows = {} THEN 0
    ELSE LET r == CHOOSE x \in rows : TRUE
         IN  r.count + SumCounts(rows \ {r})
TotalUsage(usg, user_id) == SumCounts({r \in usg : r.user_id = user_id})

\* ------------------------------------------------------------ claims

\* C1: the chat handler admits a message if and only if the sender has an
\* active subscription, or today's usage count is below FREE_DAILY_LIMIT, or
\* the text contains a crisis keyword.
C1_AdmitIff ==
    [][ (NewRun /\ Decided(out')) =>
          ( Admitted(out') <=>
              \/ has_active_subscription(subscriptions, out'.user_id, out'.started)
              \/ get_usage(usage, out'.user_id, out'.started) < FREE_DAILY_LIMIT
              \/ is_crisis(out'.text) ) ]_vars

\* C1 witness: a keyword message of a user without subscription admitted at
\* a usage count that has reached the limit.
C1_Witness ==
    /\ Admitted(out) /\ ~out.active1
    /\ out.usage_read >= FREE_DAILY_LIMIT
    /\ is_crisis(out.text)

\* C3: a denied message gets the fixed limit reply and changes nothing else:
\* no provider call, no Message row, usage, Summary and Subscription as they
\* were.
C3_DenyChangesNothing ==
    [][ (NewRun /\ Denied(out')) =>
          /\ out'.replies = <<LIMIT_TEXT>>
          /\ ~Admitted(out')
          /\ ~Reached(out', "L196") /\ ~Reached(out', "L384")
          /\ messages' = messages
          /\ usage' = usage
          /\ summaries' = summaries
          /\ subscriptions' = subscriptions ]_vars

\* C3 witness: a message was denied.
C3_Witness ==
    /\ Denied(out)
    /\ ~out.active1 /\ out.usage_read >= FREE_DAILY_LIMIT /\ ~is_crisis(out.text)

\* C4: for a message admitted under the free tier the usage counter is
\* incremented after the user message is persisted and before the chat
\* completion call, and exactly once, whether that call succeeds or fails.
C4_CountedOnceBeforeCompletion ==
    [][ (NewRun /\ Admitted(out') /\ ~out'.active1 /\ Reached(out', "L384")) =>
          /\ Times(out', "L364") = 1
          /\ Position(out', "L362") < Position(out', "L364")
          /\ Position(out', "L364") < Position(out', "L384")
          /\ TotalUsage(usage', out'.user_id) = TotalUsage(usage, out'.user_id) + 1
       ]_vars

\* C4 witness: a free-tier message was admitted and its completion call
\* failed.
C4_Witness ==
    /\ Admitted(out) /\ ~out.active1
    /\ out.raised = "L384" /\ Times(out, "L364") = 1


\* C2: for a user without subscription the usage count of a day never
\* exceeds the number of messages admitted that day, and the
\* (FREE_DAILY_LIMIT+1)-th message without keyword of a day is denied (a user
\* who never had a subscription has at most FREE_DAILY_LIMIT such messages
\* persisted per day).
C2_UsageWithinAdmitted ==
    /\ \A r \in usage :
          r.count <= Cardinality({i \in UserRows(messages, r.user_id) :
                                     messages[i].ts \div SECONDS_PER_DAY = r.date})
    /\ \A u \in Users :
          (\A r \in subscriptions : r.user_id # u) =>
              \A j \in UserRows(messages, u) :
                  Cardinality({i \in UserRows(messages, u) :
                                  /\ messages[i].ts \div SECONDS_PER_DAY
                                        = messages[j].ts \div SECONDS_PER_DAY
                                  /\ ~is_crisis(messages[i].content)})
                      <= FREE_DAILY_LIMIT

\* The run went past the summarization step of chat (lines 366-370) with no
\* exception caught there.
PastSummarize(o) == o.handler = "chat" /\ Reached(o, "L372") /\ o.swallowed = {}

SummaryUpToDate(msgs, sums, user_id) ==
    \E r \in sums :
        r.user_id = user_id /\ r.ts >= get_last_user_ts(msgs, user_id)

\* C5 as stated: whenever a user has exactly SUMMARY_TRIGGER * k user
\* messages (k >= 1), a Summary row of that user exists whose timestamp is >=
\* that of the last of them.
C5_SummaryAtEveryTrigger ==
    \A u \in Users :
        LET n == count_user_messages(messages, u)
        IN  (n > 0 /\ n % SUMMARY_TRIGGER = 0) => SummaryUpToDate(messages, summaries, u)

\* C5 amended: when chat has handled the (SUMMARY_TRIGGER * k)-th user
\* message of a user and no call raised up to and including its
\* summarization attempt, a Summary row of that user exists whose timestamp
\* is >= that of the message.
C5_SummaryAfterTrigger ==
    [][ ( /\ NewRun /\ PastSummarize(out')
          /\ count_user_messages(messages', out'.user_id) % SUMMARY_TRIGGER = 0 )
        => SummaryUpToDate(messages', summaries', out'.user_id) ]_vars

\* C5 witness: the 20th message was handled and the summary was written.
C5_Witness ==
    /\ PastSummarize(out) /\ Reached(out, "L202")
    /\ count_user_messages(messages, out.user_id) = 2 * SUMMARY_TRIGGER
    /\ SummaryUpToDate(messages, summaries, out.user_id)

\* The call at the site raised.
FailedAt(o, site) == site \in o.swallowed \/ o.raised = site

\* C6: a failure of the provider call of the summarization inside chat is
\* swallowed: the Summary row (or its absence) is as before, and the handler
\* goes on to assemble the prompt and to issue the chat completion call.
C6_SummaryFailureSwallowed ==
    [][ ( /\ NewRun /\ out'.handler = "chat" /\ FailedAt(out', "L196")
          /\ out'.raised \notin {"L372", "L373"} )
        => /\ out'.raised # "L196"
           /\ summaries' = summaries
           /\ out'.prompt # <<>>
           /\ Reached(out', "L384")
           /\ Position(out', "L196") < Position(out', "L384") ]_vars

\* C6 witness: the summarization's provider call failed and the reply was
\* sent all the same.
C6_Witness ==
    /\ out.handler = "chat" /\ "L196" \in out.swallowed
    /\ out.raised = None /\ Len(out.replies) = 1

\* C7: when the chat completion call fails the user is sent a fixed apology,
\* no assistant row is written and the user's own row stays.
C7_ApologyOnCompletionFailure ==
    (out.handler = "chat" /\ out.raised = "L384") =>
        /\ Len(out.replies) = 1
        /\ ~Reached(out, "L391")
        /\ messages # <<>>
        /\ messages[Len(messages)] .role = "user"
        /\ messages[Len(messages)] .content = out.text

\* C8: when the generation of an on-demand summary fails, the user is sent an
\* explicit try-again-later message and no Summary row is written.
C8_TryAgainOnSummaryFailure ==
    (out.handler = "summary_command" /\ out.raised = "L196") =>
        /\ Len(out.replies) = 1
        /\ ~Reached(out, "L202")

\* C9: no handler catches a store failure and goes on: a store call that
\* raises ends the run.
C9_StoreFailurePropagates ==
    \A site \in StoreSites : FailedAt(out, site) => out.raised = site

\* The shape of a prompt: the fixed system turn, then the summary turn if
\* there is to be one, then at most MAX_HISTORY turns of the history.
PromptShape(p, with_summary, content) ==
    LET k == IF with_summary THEN 2 ELSE 1
    IN  /\ Len(p) >= k
        /\ p[1] = [role |-> "system", content |-> SYSTEM_PROMPT]
        /\ with_summary =>
              p[2] = [role |-> "system", content |-> SummaryLabel \o content]
        /\ \A i \in (k + 1)..Len(p) : p[i].role \in {"user", "assistant"}
        /\ Len(p) - k <= MAX_HISTORY
        /\ Len(p) <= MAX_HISTORY + 2

\* C10 as stated: the prompt chat sends is the fixed system turn, then a
\* system turn with the user's Summary exactly when a Summary row exists,
\* then at most MAX_HISTORY history turns.
C10_PromptShape ==
    [][ (NewRun /\ out'.handler = "chat" /\ Reached(out', "L384")) =>
          PromptShape(out'.prompt,
                      get_summary(summaries', out'.user_id) # NoText,
                      get_summary(summaries', out'.user_id)) ]_vars

\* C10 amended: ... a system turn with the user's Summary exactly when a
\* Summary row with a non-empty content exists ...
C10_PromptShapeNonEmpty ==
    [][ (NewRun /\ out'.handler = "chat" /\ Reached(out', "L384")) =>
          PromptShape(out'.prompt,
                      get_summary(summaries', out'.user_id) \notin {NoText, <<>>},
                      get_summary(summaries', out'.user_id)) ]_vars

\* C10 witness: a prompt of two system turns and MAX_HISTORY history turns
\* was sent, of a history longer than that.
C10_Witness ==
    /\ out.handler = "chat" /\ Reached(out, "L384")
    /\ Len(out.prompt) = MAX_HISTORY + 2
    /\ Len(RowsOf(messages, out.user_id)) > MAX_HISTORY + 1

\* The history turns of a prompt: what follows its system turns.
HistoryTurns(p) == SelectSeq(p, LAMBDA t : t.role # "system")

\* The last min(limit, n) rows of a user in the order they were written.
LastWritten(msgs, user_id, limit) ==
    LET ids == RowsOf(msgs, user_id)
        n == Len(ids)
        k == Min2(limit, n)
    IN  [i \in 1..k |->
            [role |-> msgs[ids[n - k + i]].role,
             content |-> msgs[ids[n - k + i]].content]]

\* C11: the history turns of the prompt chat sends are the most recently
\* written min(MAX_HISTORY, n) Message rows of the user, oldest first, also
\* when rows of the user carry the same whole-second timestamp.
C11_HistoryInWriteOrder ==
    [][ (NewRun /\ out'.handler = "chat" /\ Reached(out', "L384")) =>
          HistoryTurns(out'.prompt)
            = LastWritten(SubSeq(messages', 1, Len(messages) + 1),
                          out'.user_id, MAX_HISTORY) ]_vars

\* C12: activate_subscription sets the user's expiry to the time of the call
\* plus SUBSCRIPTION_DAYS days, overwriting the expiry the user had: after a
\* second call the expiry is that of the second call, not the sum of the
\* periods, and the user has exactly one Subscription row.
C12_ActivationOverwrites ==
    out.handler = "activate_subscription" =>
        LET rows == {r \in subscriptions : r.user_id = out.user_id}
        IN  /\ Cardinality(rows) = 1
            /\ \A r \in rows :
                  r.expires_at
                    = IntTime(out.started) + SUBSCRIPTION_DAYS * SECONDS_PER_DAY

\* C12 witness: a second activation, a day after the first, of a user who
\* had a Subscription row.
C12_Witness ==
    /\ out.handler = "activate_subscription"
    /\ out.expires_before # NoInt
    /\ out.expires_before + SECONDS_PER_DAY
          = IntTime(out.started) + SUBSCRIPTION_DAYS * SECONDS_PER_DAY
    /\ Cardinality({r \in subscriptions : r.user_id = out.user_id}) = 1

\* C13: a payment event of a user leaves the user with an active
\* subscription, so that the messages that follow are admitted whatever the
\* usage count.  The payment event among the registered handlers is the
\* subscribe_start callback.
C13_PaymentActivates ==
    out.handler = "subscribe_button_callback" =>
        has_active_subscription(subscriptions, out.user_id, out.ended)

\* C14: the greeting of start is the first-contact one exactly when the user
\* has no Message rows; otherwise the long-gap one when the time since the
\* user's most recent user message is more than LONG_GAP, and the short-gap
\* one when it is LONG_GAP or less; the three texts differ.
C14_Greeting ==
    (out.handler = "start" /\ out.raised = None) =>
        /\ out.replies =
             << IF ~has_history(messages, out.user_id) THEN GREETING_FIRST
                ELSE IF out.ended - get_last_user_ts(messages, out.user_id) * Res
                           > LONG_GAP * Res
                     THEN GREETING_LONG_GAP
                     ELSE GREETING_SHORT_GAP >>
        /\ Cardinality({GREETING_FIRST, GREETING_LONG_GAP, GREETING_SHORT_GAP}) = 3

\* C14 witness: /start exactly LONG_GAP after the user's last message got the
\* short-gap greeting.
C14_Witness ==
    /\ out.handler = "start" /\ out.raised = None
    /\ out.last_ts # NoInt
    /\ out.ended - out.last_ts * Res = LONG_GAP * Res
    /\ out.replies = <<GREETING_SHORT_GAP>>

\* C15: the Message rows are append-only: every step keeps the rows there
\* were, as they were and in place; start, summary_command and
\* activate_subscription add none, and a chat run adds at most its user row
\* and its assistant row, also when it summarizes.
C15_AppendOnly ==
    [][ /\ Len(messages') >= Len(messages)
        /\ SubSeq(messages', 1, Len(messages)) = messages
        /\ (NewRun /\ out'.handler # "chat") => messages' = messages
        /\ (NewRun /\ out'.handler = "chat") =>
              /\ Len(messages') <= Len(messages) + 2
              /\ \A i \in (Len(messages) + 1)..Len(messages') :
                    messages'[i].user_id = out'.user_id ]_vars

\* C15 witness: the chat run of the SUMMARY_TRIGGER-th message wrote the
\* summary and all the rows of the user are there.
C15_Witness ==
    /\ out.handler = "chat" /\ Reached(out, "L202") /\ out.raised = None
    /\ Len(RowsOf(messages, out.user_id)) = 2 * SUMMARY_TRIGGER

\* Keys are unique: one Summary row and one Subscription row per user, one
\* usage row per user and day.
UniqueRows(sums, subs, usg) ==
    /\ \A a, b \in sums : a.user_id = b.user_id => a = b
    /\ \A a, b \in subs : a.user_id = b.user_id => a = b
    /\ \A a, b \in usg : (a.user_id = b.user_id /\ a.date = b.date) => a = b

\* C16: each user has at most one Summary row and at most one Subscription
\* row, there is at most one usage row per user and day, and the count of a
\* user and day never decreases and is not changed by a request of another
\* user or on another day.  (The tables are empty at the start.)
C16_UniqueRowsMonotoneUsage ==
    [][ /\ UniqueRows(summaries', subscriptions', usage')
        /\ \A r \in usage :
              \E q \in usage' :
                 /\ q.user_id = r.user_id /\ q.date = r.date
                 /\ q.count >= r.count
                 /\ ( \/ out'.user_id # r.user_id
                      \/ r.date \notin {today(out'.started), today(out'.ended)} )
                       => q.count = r.count ]_vars

\* C16 witness: a user has counts on two days, the earlier one of two or
\* more messages, and holds a Summary row.
C16_Witness ==
    \E r1, r2 \in usage :
        /\ r1.user_id = r2.user_id /\ r1.date < r2.date /\ r1.count >= 2
        /\ \E x \in summaries : x.user_id = r1.user_id

\* C17: for a user without subscription, today's usage count is the number
\* of the user's messages admitted today (no increment is lost), and no more
\* than FREE_DAILY_LIMIT messages without keyword are admitted in a day.
\* Stated for the states no failed call has led to.
C17_CountIsAdmittedToday ==
    (out.raised = None /\ out.swallowed = {}) =>
        \A u \in Users :
            (\A r \in subscriptions : r.user_id # u) =>
                LET sent == {i \in UserRows(messages, u) :
                                messages[i].ts \div SECONDS_PER_DAY = today(clock)}
                IN  /\ get_usage(usage, u, clock) = Cardinality(sent)
                    /\ Cardinality({i \in sent : ~is_crisis(messages[i].content)})
                          <= FREE_DAILY_LIMIT

\* C19: an admitted message raises the sender's usage count by exactly one
\* (here: summed over the days) when the sender had no active subscription at
\* the entitlement check, and leaves the usage table as it was when the
\* sender had one, also when the subscription expires during the run.
C19_CountedIffFreeTier ==
    [][ (NewRun /\ Admitted(out') /\ out'.raised = None /\ out'.swallowed = {}) =>
          IF out'.active1
          THEN usage' = usage
          ELSE /\ TotalUsage(usage', out'.user_id)
                     = TotalUsage(usage, out'.user_id) + 1
               /\ \A r \in usage : r.user_id # out'.user_id => r \in usage' ]_vars

\* C18: chat attempts the summarization for an admitted message exactly when
\* the number of the user's user messages, the new one included, is a
\* multiple of SUMMARY_TRIGGER (so after a failed attempt the next one comes
\* SUMMARY_TRIGGER messages later); a run that makes no attempt leaves the
\* summaries as they were, and with no /summary request so far a user of 1 to
\* SUMMARY_TRIGGER - 1 messages has no Summary.
C18_AttemptIffMultiple ==
    [][ (NewRun /\ out'.handler = "chat") =>
          /\ ( /\ Admitted(out')
               /\ out'.raised \notin {"L362", "L363", "L364", "L366"} )
             => /\ Reached(out', "L193")
                  <=> (count_user_messages(messages, out'.user_id) + 1)
                         % SUMMARY_TRIGGER = 0
                /\ ~Reached(out', "L193") => summaries' = summaries
          /\ ~Admitted(out') => (~Reached(out', "L193") /\ summaries' = summaries)
          /\ \A u \in Users :
                ( /\ events' = 0
                  /\ count_user_messages(messages', u) \in 1..(SUMMARY_TRIGGER - 1) )
                => \A r \in summaries' : r.user_id # u ]_vars

\* C18 witness: with no /summary request made, the attempt at the
\* SUMMARY_TRIGGER-th message failed (no Summary row was written) and the
\* next attempt was made at the message SUMMARY_TRIGGER later.
C18_Witness ==
    /\ events = 0
    /\ out.handler = "chat" /\ Reached(out, "L193")
    /\ count_user_messages(messages, out.user_id) = 2 * SUMMARY_TRIGGER
    /\ "L196" \in out.swallowed
    /\ \A r \in summaries : r.user_id # out.user_id

AssistantRows(msgs, user_id) ==
    {i \in 1..Len(msgs) : msgs[i].user_id = user_id /\ msgs[i].role = "assistant"}

\* C20: every user has at most as many assistant rows as user rows, an
\* assistant row is written only after the user row of its request (the row
\* of the user before it is a user row), and so a user who has history has a
\* most recent user message for the greeting to look up.
C20_AssistantAfterUser ==
    /\ \A u \in Users :
          LET ids == RowsOf(messages, u)
          IN  /\ Cardinality(AssistantRows(messages, u))
                    <= Cardinality(UserRows(messages, u))
              /\ \A k \in 1..Len(ids) :
                    messages[ids[k]].role = "assistant" =>
                        (k > 1 /\ messages[ids[k - 1]].role = "user")
              /\ has_history(messages, u) => get_last_user_ts(messages, u) # NoInt
    /\ (out.handler = "chat" /\ Reached(out, "L391")) =>
          (Reached(out, "L362") /\ Position(out, "L362") < Position(out, "L391"))
    /\ (out.handler = "start" /\ out.raised = None /\ out.hist) => out.last_ts # NoInt

\* C20 witness: /start of a user who has fewer assistant rows than user rows
\* (a completion call failed) found the user's last message.
C20_Witness ==
    /\ out.handler = "start" /\ out.hist /\ out.last_ts # NoInt
    /\ Cardinality(AssistantRows(messages, out.user_id))
          < Cardinality(UserRows(messages, out.user_id))

=============================================================================
